---- MODULE Spec2Model ----
(***************************************************************************)
(* Model of the Elroy chat component (SmartElroyAssistant.tsx): the        *)
(* conversation state held in React state, the attachment list, the        *)
(* behaviour settings and the asynchronous sendMessage procedure with its  *)
(* suspension points (file reads, fetch, body read).                       *)
(*                                                                         *)
(* Strings are run-length encoded: a string is a sequence of runs          *)
(* [ch, n], n >= 1, adjacent runs having different ch.  A literal          *)
(* fragment of a template string is one run of length 1 whose ch is the    *)
(* fragment.  This keeps a 200,001-character file text a two-run value.    *)
(***************************************************************************)
EXTENDS Integers, Sequences, FiniteSets, TLC

\* ------------------------------------------------------------------ bounds

\* User actions (typing, file selection, removal, settings, clear, send),
\* per behaviour.
MaxActions == 4
\* Messages of the conversation a behaviour of SpecHistory starts from.
MaxHistory == 14
\* User actions per behaviour of SpecHistory.
HistoryActions == 2
\* User actions per behaviour of SpecInFlight.
FlightActions == 3
\* User actions per behaviour of SpecLive.
LiveActions == 2
\* User actions and calls of sendMessage per behaviour of SpecTrigger.
TriggerActions == 1

\* --------------------------------------------------------- program constants

\* text.slice(0, 200000)
MaxTextChars == 200000
\* messages.slice(-12)
HistoryWindow == 12
\* setTimeout(() => controller.abort(), 120000)
TimeoutMs == 120000

\* ------------------------------------------------------------------ strings

Min(a, b) == IF a < b THEN a ELSE b
Max(a, b) == IF a > b THEN a ELSE b

EmptyStr == <<>>
Rep(c, n) == IF n <= 0 THEN <<>> ELSE <<[ch |-> c, n |-> n]>>
Lit(s) == <<[ch |-> s, n |-> 1]>>

\* a + b on strings whose runs are given
Merged(a, b) ==
  IF a = <<>> THEN b
  ELSE IF b = <<>> THEN a
  ELSE IF a[Len(a)].ch = b[1].ch
       THEN SubSeq(a, 1, Len(a) - 1)
            \o <<[ch |-> b[1].ch, n |-> a[Len(a)].n + b[1].n]>>
            \o Tail(b)
       ELSE a \o b

\* a + b on strings: each operand is evaluated once
Concat(a, b) == CHOOSE s \in {Merged(x, y) : x \in {a}, y \in {b}} : TRUE

RECURSIVE ConcatRuns(_)
ConcatRuns(parts) ==
  IF parts = <<>> THEN <<>> ELSE Concat(Head(parts), ConcatRuns(Tail(parts)))

\* a template literal: its fragments and values, each evaluated once
ConcatAll(parts) == CHOOSE s \in {ConcatRuns(p) : p \in {parts}} : TRUE

\* s.length
RECURSIVE StrLen(_)
StrLen(s) == IF s = <<>> THEN 0 ELSE Head(s).n + StrLen(Tail(s))

RECURSIVE Take(_, _)
Take(s, k) ==
  IF k <= 0 \/ s = <<>> THEN <<>>
  ELSE IF Head(s).n <= k
       THEN <<Head(s)>> \o Take(Tail(s), k - Head(s).n)
       ELSE <<[ch |-> Head(s).ch, n |-> k]>>

RECURSIVE Drop(_, _)
Drop(s, k) ==
  IF k <= 0 \/ s = <<>> THEN s
  ELSE IF Head(s).n <= k
       THEN Drop(Tail(s), k - Head(s).n)
       ELSE <<[ch |-> Head(s).ch, n |-> Head(s).n - k]>> \o Tail(s)

\* String.prototype.slice(start, end) for 0 <= start, 0 <= end
StrSlice(s, start, end) ==
  LET len == StrLen(s)
      from == Min(start, len)
      to == Min(end, len)
  IN  IF to <= from THEN <<>> ELSE Take(Drop(s, from), to - from)

IsSpace(c) == c \in {" ", "\n", "\t"}

RECURSIVE TrimStart(_)
TrimStart(s) ==
  IF s = <<>> THEN <<>>
  ELSE IF IsSpace(Head(s).ch) THEN TrimStart(Tail(s)) ELSE s

RECURSIVE TrimEnd(_)
TrimEnd(s) ==
  IF s = <<>> THEN <<>>
  ELSE IF IsSpace(s[Len(s)].ch) THEN TrimEnd(SubSeq(s, 1, Len(s) - 1)) ELSE s

\* String.prototype.trim
Trim(s) == TrimEnd(TrimStart(s))

\* Array.prototype.join
RECURSIVE Join(_, _)
Join(parts, sep) ==
  IF parts = <<>> THEN <<>>
  ELSE IF Len(parts) = 1 THEN parts[1]
  ELSE Concat(Concat(parts[1], sep), Join(Tail(parts), sep))

Digit(d) == CASE d = 0 -> "0" [] d = 1 -> "1" [] d = 2 -> "2" [] d = 3 -> "3"
              [] d = 4 -> "4" [] d = 5 -> "5" [] d = 6 -> "6" [] d = 7 -> "7"
              [] d = 8 -> "8" [] d = 9 -> "9"

\* `${n}` for a non-negative integer n
RECURSIVE NumStr(_)
NumStr(n) ==
  IF n < 10 THEN Rep(Digit(n), 1)
  ELSE Concat(NumStr(n \div 10), Rep(Digit(n % 10), 1))

BoolStr(b) == IF b THEN Lit("true") ELSE Lit("false")

\* String.prototype.startsWith on a sequence of characters
StartsWith(s, prefix) ==
  Len(s) >= Len(prefix) /\ SubSeq(s, 1, Len(prefix)) = prefix

\* Array.prototype.slice(start) (start may be negative)
ArraySlice(a, start) ==
  LET n == Len(a)
      from == IF start < 0 THEN Max(n + start, 0) ELSE Min(start, n)
  IN  SubSeq(a, from + 1, n)

\* --------------------------------------------------------------- data model

\* type Role = "user" | "assistant"
Role == {"user", "assistant"}

\* ChatMessage; id (uid()) and ts (Date.now()) are opaque and never read back
ChatMessage(role, text) == [role |-> role, text |-> text]

\* Declared media types (File.type), as sequences of characters
TypePdf == <<"a", "p", "p", "l", "i", "c", "a", "t", "i", "o", "n", "/", "p", "d", "f">>
TypeText == <<"t", "e", "x", "t", "/", "p", "l", "a", "i", "n">>
TypePng == <<"i", "m", "a", "g", "e", "/", "p", "n", "g">>
TypeDoc == <<"a", "p", "p", "l", "i", "c", "a", "t", "i", "o", "n", "/", "m", "s", "w", "o", "r", "d">>
PrefixImage == <<"i", "m", "a", "g", "e", "/">>

\* type PendingFile = File: the fields the component reads (name, type)
File(name, type) == [name |-> name, type |-> type]

FilePng == File(Lit("p.png"), TypePng)
FilePdf == File(Lit("d.pdf"), TypePdf)
FileTxt == File(Lit("n.txt"), TypeText)
FileDoc == File(Lit("w.doc"), TypeDoc)


\* OpenRouterContentBlock
TextBlock(text) == [type |-> "text", text |-> text]
ImageBlock(url) == [type |-> "image_url", image_url |-> [url |-> url]]
FileBlock(filename, data) ==
  [type |-> "file", file |-> [filename |-> filename, file_data |-> data]]

\* OpenRouterMessage
OpenRouterMessage(role, content) == [role |-> role, content |-> content]

DEFAULT_SYSTEM_PROMPT == Lit("You are \"Elroy\" ...")

Tones == {"neutral", "friendly", "formal"}
Depths == {"concise", "balanced", "detailed"}
CitationModes == {"auto", "always", "never"}
SystemPrompts == {DEFAULT_SYSTEM_PROMPT, Lit("Be brief.")}

\* Values the user types into the composer
Inputs == {EmptyStr, Rep(" ", 2), ConcatAll(<<Rep(" ", 1), Rep("h", 1), Rep("i", 1), Rep("\n", 1)>>)}

\* ------------------------------------------------------------ environment

\* FileReader results of readAsDataURL
DataUrls == {Lit("data:;base64,QUJD")}

\* FileReader results of readAsText: of 2, 200000 and 200001 characters
FileTexts ==
  {Concat(Rep("a", 1), Rep("\n", 1)),
   Rep("x", 200000),
   Concat(Rep("x", 199999), Rep("y", 2))}

\* Error objects: name and message
Error(name, message) == [name |-> name, message |-> message]

\* reject(new Error("File read error"))
FileReadError == Error("Error", Lit("File read error"))

\* controller.abort() rejects the fetch with an AbortError
AbortError == Error("AbortError", Lit("The user aborted a request."))

\* Rejection of resp.text() or resp.json() when the body cannot be read
BodyReadError == Error("TypeError", Lit("network error"))

\* Rejections of fetch()
NetworkErrors == {Error("TypeError", Lit("Failed to fetch")), Error("TypeError", EmptyStr)}

\* Rejection of resp.json() on an unparsable body
ParseError == Error("SyntaxError", Lit("Unexpected token < in JSON at position 0"))

\* Error.prototype.toString
ErrorToString(err) ==
  IF err.name = "" THEN err.message
  ELSE IF err.message = EmptyStr THEN Lit(err.name)
  ELSE ConcatAll(<<Lit(err.name), Lit(": "), err.message>>)

\* JSON values
JUndefined == [t |-> "undefined"]
JNull == [t |-> "null"]
JString(s) == [t |-> "string", v |-> s]
JArray(a) == [t |-> "array", v |-> a]
JObject(o) == [t |-> "object", v |-> o]

\* The outcome of an expression that threw a TypeError
JThrown == [t |-> "thrown"]

IsNullish(j) == j.t \in {"undefined", "null"}

\* j.key: a TypeError on undefined and null
Prop(j, key) ==
  IF j.t = "thrown" \/ IsNullish(j) THEN JThrown
  ELSE IF j.t = "object" /\ key \in DOMAIN j.v THEN j.v[key]
  ELSE JUndefined

\* j[i]: a TypeError on undefined and null
Index(j, i) ==
  IF j.t = "thrown" \/ IsNullish(j) THEN JThrown
  ELSE IF j.t = "array" /\ i < Len(j.v) THEN j.v[i + 1]
  ELSE IF j.t = "string" /\ i < StrLen(j.v) THEN JString(StrSlice(j.v, i, i + 1))
  ELSE JUndefined

\* j?.key
OptProp(j, key) == IF IsNullish(j) THEN JUndefined ELSE Prop(j, key)

\* j?.[i]
OptIndex(j, i) == IF IsNullish(j) THEN JUndefined ELSE Index(j, i)

\* j ?? d
Coalesce(j, d) == IF IsNullish(j) THEN d ELSE j

\* TypeError: Cannot read properties of undefined
PropertyError == Error("TypeError", Lit("Cannot read properties of undefined"))

Reply(content) == JObject([message |-> JObject([role |-> JString(Lit("assistant")), content |-> content])])

\* Bodies a 2xx response can carry once parsed
JsonBodies ==
  {JObject([choices |-> JArray(<<Reply(JString(ConcatAll(<<Rep("4", 1), Rep("2", 1)>>)))>>)]),
   JObject([choices |-> JArray(<<Reply(JString(EmptyStr))>>)]),
   JObject([choices |-> JArray(<<Reply(JNull)>>)]),
   JObject([choices |-> JArray(<<JObject([message |-> JObject([role |-> JString(Lit("assistant"))])])>>)]),
   JObject([choices |-> JArray(<<>>)]),
   JObject([error |-> JString(Lit("overloaded"))]),
   JNull}

\* HTTP statuses the service answers with
Statuses == {200, 500}

\* Bodies of a non-2xx response, as text
ErrorTexts == {EmptyStr, Lit("upstream failure")}

\* ------------------------------------------------------------------ state

VARIABLES
  messages,        \* useState<ChatMessage[]>([])
  input,           \* useState("")
  pendingFiles,    \* useState<PendingFile[]>([])
  isSending,       \* useState(false)
  systemPrompt,    \* useState(DEFAULT_SYSTEM_PROMPT)
  tone,            \* useState("neutral")
  depth,           \* useState("balanced")
  citationMode,    \* useState("auto")
  extractTables,   \* useState(true)
  describeImages,  \* useState(true)
  sends,           \* the calls of sendMessage, in trigger order
  left             \* what the environment may still do (the bounds above)

settingsVars == <<systemPrompt, tone, depth, citationMode, extractTables, describeImages>>
stateVars == <<messages, input, pendingFiles, isSending>>
vars == <<messages, input, pendingFiles, isSending, systemPrompt, tone, depth,
          citationMode, extractTables, describeImages, sends, left>>

\* The values a render's closures see
Render ==
  [messages |-> messages,
   input |-> input,
   pendingFiles |-> pendingFiles,
   systemPrompt |-> systemPrompt,
   tone |-> tone,
   depth |-> depth,
   citationMode |-> citationMode,
   extractTables |-> extractTables,
   describeImages |-> describeImages]

\* The render of the initial state
DefaultRender ==
  [messages |-> <<>>,
   input |-> EmptyStr,
   pendingFiles |-> <<>>,
   systemPrompt |-> DEFAULT_SYSTEM_PROMPT,
   tone |-> "neutral",
   depth |-> "balanced",
   citationMode |-> "auto",
   extractTables |-> TRUE,
   describeImages |-> TRUE]

\* -------------------------------------------------------------- appendFiles

\* a filter that takes any application/ type for a PDF
IsValidFileByFamily(f) ==
  \/ StartsWith(f.type, SubSeq(TypePdf, 1, 12))
  \/ f.type = TypeText
  \/ StartsWith(f.type, PrefixImage)

\* the filter predicate of appendFiles
IsValidFile(f) ==
  LET isPdf == f.type = TypePdf
      isText == f.type = TypeText
      isImage == StartsWith(f.type, PrefixImage)
  IN  isPdf \/ isText \/ isImage

\* setPendingFiles((prev) => [...prev, ...valid])
AppendedFiles(prev, files) == prev \o SelectSeq(files, IsValidFile)

\* setPendingFiles((prev) => prev.filter((f) => f.name !== name))
RemovedFile(prev, name) ==
  LET Keep(f) == f.name # name IN SelectSeq(prev, Keep)

\* ------------------------------------------------------ sendMessage: payload

\* an empty check that looks at the text alone
ReturnsEarlyOnText(hasInput, hasFiles) == ~hasInput

\* if (!hasInput && !hasFiles) return;
ReturnsEarly(hasInput, hasFiles) == ~hasInput /\ ~hasFiles

\* a user message without the placeholder for an empty input
UserMessageNoPlaceholder(trimmed) == ChatMessage("user", trimmed)

\* text: trimmed.length ? trimmed : "(sent attachments)"
UserMessage(trimmed) ==
  ChatMessage("user", IF StrLen(trimmed) > 0 THEN trimmed ELSE Lit("(sent attachments)"))

controlDirectives(r) ==
  Join(<<Concat(Lit("Tone: "), Lit(r.tone)),
         Concat(Lit("Depth: "), Lit(r.depth)),
         Concat(Lit("Citations: "), Lit(r.citationMode)),
         Concat(Lit("ExtractTables: "), BoolStr(r.extractTables)),
         Concat(Lit("DescribeImages: "), BoolStr(r.describeImages))>>,
       Lit(" | "))

\* the first block of userBlocks
DirectiveBlock(r, trimmed) ==
  IF StrLen(trimmed) > 0
  THEN TextBlock(ConcatAll(<<Lit("User request:\n"), trimmed, Lit("\n\n"),
                             Lit("Assistant controls: "), controlDirectives(r), Lit("\n"),
                             Lit("Instructions:\n- If attachments contain tables, ...\n")>>))
  ELSE TextBlock(ConcatAll(<<Lit("User sent attachments without a message.\n"),
                             Lit("Assistant controls: "), controlDirectives(r), Lit("\n"),
                             Lit("Please extract, summarize, and provide structured insights. ...\n")>>))

IsImageFile(f) == StartsWith(f.type, PrefixImage)
IsPdfFile(f) == f.type = TypePdf
IsTextFile(f) == f.type = TypeText

\* the branches of the for loop that await a read
NeedsRead(f) == IsImageFile(f) \/ IsPdfFile(f) \/ IsTextFile(f)

ImageBlocks(f, dataUrl) ==
  <<ImageBlock(dataUrl),
    TextBlock(ConcatAll(<<Lit("Attachment: Image \""), f.name,
                          Lit("\". If text or tables exist, extract them.")>>))>>

\* a PDF branch that pushes the file block alone
PdfBlocksNoInstruction(f, dataUrl) == <<FileBlock(f.name, dataUrl)>>

PdfBlocks(f, dataUrl) ==
  <<FileBlock(f.name, dataUrl),
    TextBlock(ConcatAll(<<Lit("Attachment: PDF \""), f.name,
                          Lit("\". Read all pages. Extract tables and key sections.")>>))>>

\* a text branch that cuts one character early
TextFileBlocksOffByOne(f, text) ==
  <<TextBlock(ConcatAll(<<Lit("Attachment: Text file \""), f.name, Lit("\". Content below:\n"),
                          Lit("----- BEGIN "), f.name, Lit(" -----\n"),
                          StrSlice(text, 0, MaxTextChars - 1),
                          Lit("\n----- END "), f.name, Lit(" -----")>>))>>

TextFileBlocks(f, text) ==
  <<TextBlock(ConcatAll(<<Lit("Attachment: Text file \""), f.name, Lit("\". Content below:\n"),
                          Lit("----- BEGIN "), f.name, Lit(" -----\n"),
                          StrSlice(text, 0, MaxTextChars),
                          Lit("\n----- END "), f.name, Lit(" -----")>>))>>

\* the blocks one iteration of the loop pushes, given what the read returned
AttachmentBlocks(f, result) ==
  IF IsImageFile(f) THEN ImageBlocks(f, result)
  ELSE IF IsPdfFile(f) THEN PdfBlocks(f, result)
  ELSE IF IsTextFile(f) THEN TextFileBlocks(f, result)
  ELSE <<>>

\* what the read of f can resolve to
ReadResults(f) == IF IsTextFile(f) THEN FileTexts ELSE DataUrls

\* a window one turn too wide
RecentOffByOne(msgs) == ArraySlice(msgs, 0 - (HistoryWindow + 1))

\* a window taken from the start of the conversation
RecentFromStart(msgs) == SubSeq(msgs, 1, Min(Len(msgs), HistoryWindow))

\* const recent = messages.slice(-12)
Recent(msgs) == ArraySlice(msgs, 0 - HistoryWindow)

\* a history that reads the prompt of the latest render
HistorySystemPromptLive(r) == systemPrompt

\* (the system prompt followed by the control directives)
HistorySystemPromptWithControls(r) == Concat(r.systemPrompt, controlDirectives(r))

\* the system prompt the history starts with
HistorySystemPrompt(r) == r.systemPrompt

\* const history: system block, recent turns, current turn
History(r, userBlocks) ==
  <<OpenRouterMessage("system", <<TextBlock(HistorySystemPrompt(r))>>)>>
  \o [i \in 1..Len(Recent(r.messages)) |->
        OpenRouterMessage(Recent(r.messages)[i].role,
                          <<TextBlock(Recent(r.messages)[i].text)>>)]
  \o <<OpenRouterMessage("user", userBlocks)>>

\* --------------------------------------------------- sendMessage: outcomes

FailurePrefix ==
  Lit("I ran into an issue reaching the assistant service. Please try again. Details: ")

\* err?.message || String(err)
ErrorDetails(err) ==
  IF StrLen(err.message) > 0 THEN err.message ELSE ErrorToString(err)

\* a catch block that reports err.message alone
FailureMessageOnlyMessage(err) == ChatMessage("assistant", Concat(FailurePrefix, err.message))

\* the assistantMsg of the catch block
FailureMessage(err) == ChatMessage("assistant", Concat(FailurePrefix, ErrorDetails(err)))

\* data.choices[0].message.content ?? "(no response)"
ResponseContentUnguarded(data) ==
  LET c == Prop(Prop(Index(Prop(data, "choices"), 0), "message"), "content")
  IN  IF c.t = "thrown" THEN c ELSE Coalesce(c, JString(Lit("(no response)")))

\* data?.choices?.[0]?.message?.content ?? "(no response)"
ResponseContent(data) ==
  Coalesce(OptProp(OptProp(OptIndex(OptProp(data, "choices"), 0), "message"), "content"),
           JString(Lit("(no response)")))

\* the assistantMsg of the success path
SuccessMessage(data) == ChatMessage("assistant", ResponseContent(data).v)

\* throw new Error(`API error: ${resp.status} ${textErr}`)
ApiError(status, textErr) ==
  Error("Error", ConcatAll(<<Lit("API error: "), NumStr(status), Lit(" "), textErr>>))

\* resp.ok
IsOk(status) == status >= 200 /\ status <= 299

\* ------------------------------------------------- sendMessage: the process

\* One call of sendMessage: its position, the values its closure captured
\* (render), its locals (trimmed, userBlocks, history, the loop position
\* idx, the timeout) and, for the record, what the environment handed it
\* (reads, status, error), the assistant message it appended and the
\* pending list its finally block cleared.
NewSend(r, trimmed) ==
  [pc |-> "start",
   render |-> r,
   trimmed |-> trimmed,
   userBlocks |-> <<DirectiveBlock(r, trimmed)>>,
   idx |-> 1,
   reads |-> <<>>,
   history |-> <<>>,
   posted |-> 0,
   timer |-> "none",
   status |-> 0,
   data |-> JUndefined,
   error |-> <<>>,
   appended |-> <<>>,
   cleared |-> <<>>]

\* The call has returned: its closure and locals are gone; what stays is
\* what it was handed and what it appended.
IdleSend == NewSend(DefaultRender, EmptyStr)

Returned(snd, timer, error, data, appended) ==
  [IdleSend EXCEPT
     !.pc = "done",
     !.userBlocks = <<>>,
     !.posted = snd.posted,
     !.timer = timer,
     !.status = snd.status,
     !.error = error,
     !.data = data,
     !.appended = appended,
     !.cleared = pendingFiles]

\* a loop that gives up the remaining files after its first read
NextReadFirstOnly(files, i) == IF i > 1 THEN Len(files) + 1 ELSE i

\* the next position of the for loop, from i on, whose file is read
RECURSIVE NextRead(_, _)
NextRead(files, i) ==
  IF i > Len(files) THEN i
  ELSE IF NeedsRead(files[i]) THEN i
  ELSE NextRead(files, i + 1)

\* Run the call up to its next await: the read of the next attachment, or,
\* the loop done, the fetch (history built, timeout armed, request posted).
Advance(snd) ==
  LET j == NextRead(snd.render.pendingFiles, snd.idx)
  IN  IF j <= Len(snd.render.pendingFiles)
      THEN [snd EXCEPT !.pc = "reading", !.idx = j]
      ELSE [snd EXCEPT !.pc = "fetching",
                       !.idx = j,
                       !.history = History(snd.render, snd.userBlocks),
                       !.posted = @ + 1,
                       !.timer = "armed"]

\* a finally block that leaves the attachments in place
FinallyKeepsFiles(prev) == prev

\* a finally block that takes one attachment off the list
FinallyDropsFirst(prev) == IF prev = <<>> THEN <<>> ELSE Tail(prev)

\* finally { setIsSending(false); setPendingFiles([]); }
FinallyIsSending == FALSE
FinallyPendingFiles(prev) == <<>>

Finally ==
  /\ isSending' = FinallyIsSending
  /\ pendingFiles' = FinallyPendingFiles(pendingFiles)

\* a catch block that puts the failure message in the place of the last message
CatchReplacesLast(s, err, timer) ==
  /\ messages' = Append(SubSeq(messages, 1, Len(messages) - 1), FailureMessage(err))
  /\ Finally
  /\ sends' = [sends EXCEPT ![s] = Returned(@, timer, <<err>>, JUndefined, <<FailureMessage(err)>>)]
  /\ UNCHANGED <<input, settingsVars, left>>

\* catch (err) { ... setMessages((prev) => [...prev, assistantMsg]) } finally
Catch(s, err, timer) ==
  /\ messages' = Append(messages, FailureMessage(err))
  /\ Finally
  /\ sends' = [sends EXCEPT ![s] = Returned(@, timer, <<err>>, JUndefined, <<FailureMessage(err)>>)]
  /\ UNCHANGED <<input, settingsVars, left>>

\* a sendMessage that turns the call down while a send is in flight
SendMessageAdmits ==
  LET trimmed == Trim(input)
      hasInput == StrLen(trimmed) > 0
      hasFiles == Len(pendingFiles) > 0
  IN  IF ReturnsEarly(hasInput, hasFiles) \/ isSending
      THEN /\ left.actions > 0
           /\ left' = [left EXCEPT !.actions = @ - 1, !.returned = @ + 1]
           /\ UNCHANGED <<stateVars, settingsVars, sends>>
      ELSE /\ left.actions > 0
           /\ left' = [left EXCEPT !.actions = @ - 1]
           /\ messages' = Append(messages, UserMessage(trimmed))
           /\ input' = EmptyStr
           /\ isSending' = TRUE
           /\ sends' = Append(sends, Advance(NewSend(Render, trimmed)))
           /\ UNCHANGED <<pendingFiles, settingsVars>>

\* sendMessage up to its first await
SendMessage ==
  LET trimmed == Trim(input)
      hasInput == StrLen(trimmed) > 0
      hasFiles == Len(pendingFiles) > 0
  IN  IF ReturnsEarly(hasInput, hasFiles)
      THEN /\ left.actions > 0
           /\ left' = [left EXCEPT !.actions = @ - 1, !.returned = @ + 1]
           /\ UNCHANGED <<stateVars, settingsVars, sends>>
      ELSE /\ left.actions > 0
           /\ left' = [left EXCEPT !.actions = @ - 1]
           /\ messages' = Append(messages, UserMessage(trimmed))
           /\ input' = EmptyStr
           /\ isSending' = TRUE
           /\ sends' = Append(sends, Advance(NewSend(Render, trimmed)))
           /\ UNCHANGED <<pendingFiles, settingsVars>>

\* The Send button: disabled while isSending, it calls sendMessage when clicked
ClickSend ==
  /\ ~isSending
  /\ SendMessage

\* reader.onload of the awaited read: push the blocks, go on
ReadResolve(s) ==
  /\ sends[s].pc = "reading"
  /\ LET f == sends[s].render.pendingFiles[sends[s].idx]
     IN  \E result \in ReadResults(f) :
           \E pushed \in {[sends[s] EXCEPT !.userBlocks = @ \o AttachmentBlocks(f, result),
                                            !.reads = Append(@, result),
                                            !.idx = @ + 1]} :
             sends' = [sends EXCEPT ![s] = Advance(pushed)]
  /\ UNCHANGED <<stateVars, settingsVars, left>>

\* reader.onerror of the awaited read
ReadReject(s) ==
  /\ sends[s].pc = "reading"
  /\ Catch(s, FileReadError, sends[s].timer)

\* fetch resolves with the response head; clearTimeout(timeout)
FetchResolve(s) ==
  /\ sends[s].pc = "fetching"
  /\ \E status \in Statuses :
       sends' = [sends EXCEPT ![s] = [@ EXCEPT !.pc = IF IsOk(status) THEN "json" ELSE "text",
                                                !.status = status,
                                                !.timer = "cleared"]]
  /\ UNCHANGED <<stateVars, settingsVars, left>>

\* fetch rejects (connection error); the timeout stays armed
FetchReject(s) ==
  /\ sends[s].pc = "fetching"
  /\ \E err \in NetworkErrors : Catch(s, err, sends[s].timer)

\* a timeout callback that aborts nothing
TimeoutNoAbort(s) ==
  /\ sends[s].timer = "armed"
  /\ sends' = [sends EXCEPT ![s] = [@ EXCEPT !.timer = "fired"]]
  /\ UNCHANGED <<stateVars, settingsVars, left>>

\* the timeout callback: controller.abort()
Timeout(s) ==
  /\ sends[s].timer = "armed"
  /\ IF sends[s].pc = "fetching"
     THEN Catch(s, AbortError, "fired")
     ELSE /\ sends' = [sends EXCEPT ![s] = [@ EXCEPT !.timer = "fired"]]
          /\ UNCHANGED <<stateVars, settingsVars, left>>

\* await resp.text() of a non-2xx response, then the throw
TextResolve(s) ==
  /\ sends[s].pc = "text"
  /\ \E textErr \in ErrorTexts :
       \E err \in {ApiError(sends[s].status, textErr)} : Catch(s, err, sends[s].timer)

\* await resp.text() rejects
TextReject(s) ==
  /\ sends[s].pc = "text"
  /\ Catch(s, BodyReadError, sends[s].timer)

\* await resp.json() resolves: the success path (or the catch block, had
\* the content expression thrown), then finally
JsonResolve(s) ==
  /\ sends[s].pc = "json"
  /\ \E data \in JsonBodies :
       /\ messages' = Append(messages, IF ResponseContent(data).t = "thrown"
                                       THEN FailureMessage(PropertyError)
                                       ELSE SuccessMessage(data))
       /\ sends' = [sends EXCEPT ![s] =
                     IF ResponseContent(data).t = "thrown"
                     THEN Returned(@, @.timer, <<PropertyError>>, data,
                                   <<FailureMessage(PropertyError)>>)
                     ELSE Returned(@, @.timer, <<>>, data, <<SuccessMessage(data)>>)]
  /\ Finally
  /\ UNCHANGED <<input, settingsVars, left>>

\* await resp.json() rejects: the body does not parse, or the read fails
JsonReject(s) ==
  /\ sends[s].pc = "json"
  /\ \E err \in {ParseError, BodyReadError} : Catch(s, err, sends[s].timer)

\* ------------------------------------------------------------ user actions

\* One more user action, within the bound
Act == /\ left.actions > 0
       /\ left' = [left EXCEPT !.actions = @ - 1]

\* onChange of the composer's Textarea
SetInput ==
  /\ Act
  /\ \E v \in Inputs \ {input} : input' = v
  /\ UNCHANGED <<messages, pendingFiles, isSending, settingsVars, sends>>

\* The selections and drops the user makes: supported and unsupported
\* files, alone and mixed
Selections ==
  {<<FileTxt>>,
   <<FileDoc>>,
   <<FilePng, FileDoc>>,
   <<FileDoc, FilePdf, FileDoc, FileTxt>>}

\* onDrop / onFileChange: if (files.length) appendFiles(files)
AppendFiles ==
  /\ Act
  /\ \E files \in Selections : pendingFiles' = AppendedFiles(pendingFiles, files)
  /\ UNCHANGED <<messages, input, isSending, settingsVars, sends>>

\* the Remove button of a pending file
RemovePendingFile ==
  /\ Act
  /\ \E i \in DOMAIN pendingFiles :
       pendingFiles' = RemovedFile(pendingFiles, pendingFiles[i].name)
  /\ UNCHANGED <<messages, input, isSending, settingsVars, sends>>


SetTone ==
  /\ Act
  /\ \E v \in Tones \ {tone} : tone' = v
  /\ UNCHANGED <<stateVars, systemPrompt, depth, citationMode, extractTables, describeImages, sends>>

SetDepth ==
  /\ Act
  /\ \E v \in Depths \ {depth} : depth' = v
  /\ UNCHANGED <<stateVars, systemPrompt, tone, citationMode, extractTables, describeImages, sends>>

SetCitationMode ==
  /\ Act
  /\ \E v \in CitationModes \ {citationMode} : citationMode' = v
  /\ UNCHANGED <<stateVars, systemPrompt, tone, depth, extractTables, describeImages, sends>>

SetExtractTables ==
  /\ Act
  /\ \E v \in BOOLEAN \ {extractTables} : extractTables' = v
  /\ UNCHANGED <<stateVars, systemPrompt, tone, depth, citationMode, describeImages, sends>>

SetDescribeImages ==
  /\ Act
  /\ \E v \in BOOLEAN \ {describeImages} : describeImages' = v
  /\ UNCHANGED <<stateVars, systemPrompt, tone, depth, citationMode, extractTables, sends>>

SetSystemPrompt ==
  /\ Act
  /\ \E v \in SystemPrompts \ {systemPrompt} : systemPrompt' = v
  /\ UNCHANGED <<stateVars, tone, depth, citationMode, extractTables, describeImages, sends>>

\* a clear that also resets the composer
ClearChatResetsComposer ==
  /\ Act
  /\ messages' = <<>>
  /\ input' = EmptyStr
  /\ pendingFiles' = <<>>
  /\ UNCHANGED <<isSending, settingsVars, sends>>

\* a clear that also calls off the sends that are running
ClearChatCancels ==
  /\ Act
  /\ messages' = <<>>
  /\ sends' = [s \in DOMAIN sends |->
                IF sends[s].pc = "done" THEN sends[s]
                ELSE Returned(sends[s], "cleared", <<AbortError>>, JUndefined, <<>>)]
  /\ isSending' = FALSE
  /\ pendingFiles' = <<>>
  /\ UNCHANGED <<input, settingsVars>>

\* const clearChat = () => setMessages([])
ClearedMessages(prev) == <<>>

ClearChat ==
  /\ Act
  /\ messages' = ClearedMessages(messages)
  /\ UNCHANGED <<input, pendingFiles, isSending, settingsVars, sends>>

\* ------------------------------------------------------------ specification

Init ==
  /\ messages = <<>>
  /\ input = EmptyStr
  /\ pendingFiles = <<>>
  /\ isSending = FALSE
  /\ systemPrompt = DEFAULT_SYSTEM_PROMPT
  /\ tone = "neutral"
  /\ depth = "balanced"
  /\ citationMode = "auto"
  /\ extractTables = TRUE
  /\ describeImages = TRUE
  /\ sends = <<>>
  /\ left = [actions |-> MaxActions, returned |-> 0]

Next ==
  \/ ClickSend
  \/ \E s \in DOMAIN sends :
       \/ ReadResolve(s)
       \/ ReadReject(s)
       \/ FetchResolve(s)
       \/ FetchReject(s)
       \/ Timeout(s)
       \/ TextResolve(s)
       \/ TextReject(s)
       \/ JsonResolve(s)
       \/ JsonReject(s)
  \/ SetInput
  \/ AppendFiles
  \/ RemovePendingFile
  \/ SetTone
  \/ SetDepth
  \/ SetCitationMode
  \/ SetExtractTables
  \/ SetDescribeImages
  \/ SetSystemPrompt
  \/ ClearChat

Spec == Init /\ [][Next]_vars

\* The conversation after k exchanges: the user's "hi" and the replies "42"
\* and "(no response)" in turn
RECURSIVE Exchanges(_)
Exchanges(k) ==
  IF k = 0 THEN <<>>
  ELSE Exchanges(k - 1)
       \o <<UserMessage(Trim(ConcatAll(<<Rep(" ", 1), Rep("h", 1), Rep("i", 1), Rep("\n", 1)>>))),
            SuccessMessage(IF k % 2 = 1
                           THEN JObject([choices |-> JArray(<<Reply(JString(ConcatAll(<<Rep("4", 1), Rep("2", 1)>>)))>>)])
                           ELSE JObject([choices |-> JArray(<<>>)]))>>

\* Its last n messages (an odd n: the conversation was cleared while the
\* first of these sends was running)
Conversation(n) == ArraySlice(Exchanges((n + 1) \div 2), 0 - n)

\* The component with a conversation behind it and the composer filled in,
\* with or without an image selected
InitHistory ==
  /\ messages \in {Conversation(n) : n \in 0..MaxHistory}
  /\ input \in Inputs
  /\ pendingFiles \in {<<>>, AppendedFiles(<<>>, <<FilePng>>)}
  /\ isSending = FALSE
  /\ systemPrompt = DEFAULT_SYSTEM_PROMPT
  /\ tone = "neutral"
  /\ depth = "balanced"
  /\ citationMode = "auto"
  /\ extractTables = TRUE
  /\ describeImages = TRUE
  /\ sends = <<>>
  /\ left = [actions |-> HistoryActions, returned |-> 0]

SpecHistory == InitHistory /\ [][Next]_vars

\* The render in which one image has been selected and nothing typed
ImageSelected == [DefaultRender EXCEPT !.pendingFiles = AppendedFiles(<<>>, <<FilePng>>)]

\* The component just after sendMessage was called in that render: the
\* user message appended, isSending set, the call awaiting its first read
InitInFlight ==
  /\ messages = Append(<<>>, UserMessage(Trim(ImageSelected.input)))
  /\ input = EmptyStr
  /\ pendingFiles = ImageSelected.pendingFiles
  /\ isSending = TRUE
  /\ systemPrompt = DEFAULT_SYSTEM_PROMPT
  /\ tone = "neutral"
  /\ depth = "balanced"
  /\ citationMode = "auto"
  /\ extractTables = TRUE
  /\ describeImages = TRUE
  /\ sends = <<Advance(NewSend(ImageSelected, Trim(ImageSelected.input)))>>
  /\ left = [actions |-> FlightActions, returned |-> 0]

SpecInFlight == InitInFlight /\ [][Next]_vars

\* The component with a send over one image in flight, and sendMessage
\* called by whatever reaches it, the Send button or not
InitTrigger ==
  /\ messages = Append(<<>>, UserMessage(Trim(ImageSelected.input)))
  /\ input = EmptyStr
  /\ pendingFiles = ImageSelected.pendingFiles
  /\ isSending = TRUE
  /\ systemPrompt = DEFAULT_SYSTEM_PROMPT
  /\ tone = "neutral"
  /\ depth = "balanced"
  /\ citationMode = "auto"
  /\ extractTables = TRUE
  /\ describeImages = TRUE
  /\ sends = <<Advance(NewSend(ImageSelected, Trim(ImageSelected.input)))>>
  /\ left = [actions |-> TriggerActions, returned |-> 0]

NextTrigger ==
  \/ SendMessage
  \/ Next

SpecTrigger == InitTrigger /\ [][NextTrigger]_vars

\* The component with a request typed and a text file selected
InitLive ==
  /\ messages = <<>>
  /\ input = ConcatAll(<<Rep(" ", 1), Rep("h", 1), Rep("i", 1), Rep("\n", 1)>>)
  /\ pendingFiles = AppendedFiles(<<>>, <<FileTxt>>)
  /\ isSending = FALSE
  /\ systemPrompt = DEFAULT_SYSTEM_PROMPT
  /\ tone = "neutral"
  /\ depth = "balanced"
  /\ citationMode = "auto"
  /\ extractTables = TRUE
  /\ describeImages = TRUE
  /\ sends = <<>>
  /\ left = [actions |-> LiveActions, returned |-> 0]

\* The events the environment owes call s: the FileReader settles the read
\* awaited, the timer armed fires unless it is cleared, the body of a
\* response received settles
ReadSettles(s) == s \in DOMAIN sends /\ (ReadResolve(s) \/ ReadReject(s))
TimerFires(s) == s \in DOMAIN sends /\ Timeout(s)
TextSettles(s) == s \in DOMAIN sends /\ (TextResolve(s) \/ TextReject(s))
JsonSettles(s) == s \in DOMAIN sends /\ (JsonResolve(s) \/ JsonReject(s))

Delivery ==
  \A s \in 1..LiveActions :
    /\ WF_vars(ReadSettles(s))
    /\ WF_vars(TimerFires(s))
    /\ WF_vars(TextSettles(s))
    /\ WF_vars(JsonSettles(s))

SpecLive == InitLive /\ [][Next]_vars /\ Delivery

\* ------------------------------------------------------------------ claims

\* The calls that have posted their request and not yet returned
Posted == {s \in DOMAIN sends : sends[s].pc \in {"fetching", "text", "json"}}

\* C1: the message sequence a send posts is one system block, then at most
\* 12 prior turns of role user or assistant, then one user block: 2 to 14
\* blocks, however long the conversation.
C1_PayloadShape ==
  \A s \in Posted :
    LET h == sends[s].history
    IN  /\ Len(h) >= 2
        /\ Len(h) <= 14
        /\ h[1].role = "system"
        /\ h[Len(h)].role = "user"
        /\ \A i \in 2..(Len(h) - 1) : h[i].role \in {"user", "assistant"}
        /\ Len(h) - 2 <= 12

\* a send over a conversation of more than 12 messages has posted 14 blocks
C1_Witness ==
  \E s \in Posted :
    /\ Len(sends[s].render.messages) > 12
    /\ Len(sends[s].history) = 14

\* Call s returns in this step
Returns(s) == sends[s].pc # "done" /\ sends'[s].pc = "done"

\* C2: when a send that passed the empty check completes, by success or by
\* any failure, the pending-attachment list is empty and isSending is false.
C2_CompletionClears ==
  [][\A s \in DOMAIN sends :
       Returns(s) => pendingFiles' = <<>> /\ isSending' = FALSE]_vars

\* a failed send has completed over attachments selected meanwhile
C2_Witness ==
  \E s \in DOMAIN sends :
    /\ sends[s].pc = "done"
    /\ sends[s].error = <<FileReadError>>
    /\ pendingFiles = <<>>
    /\ ~isSending
    /\ left.actions = 0

\* C3: a send that fails appends exactly one message, of role assistant,
\* whose text is the failure prefix followed by the error's description
\* (its message, or its name when the message is empty); it posts no
\* request in that step and at most one request in all.
C3_FailureAppendsOne ==
  /\ [][\A s \in DOMAIN sends :
          (Returns(s) /\ sends'[s].error # <<>>) =>
            LET err == sends'[s].error[1]
                desc == IF err.message # EmptyStr THEN err.message ELSE Lit(err.name)
            IN  /\ Len(messages') = Len(messages) + 1
                /\ SubSeq(messages', 1, Len(messages)) = messages
                /\ messages'[Len(messages')].role = "assistant"
                /\ messages'[Len(messages')].text = Concat(FailurePrefix, desc)
                /\ desc # EmptyStr
                /\ sends'[s].posted = sends[s].posted
                /\ \A t \in DOMAIN sends : sends'[t].posted = sends[t].posted]_vars
  /\ [](\A s \in DOMAIN sends : sends[s].posted <= 1)

\* a send has failed on an error that carries no message
C3_Witness ==
  \E s \in DOMAIN sends :
    /\ sends[s].pc = "done"
    /\ sends[s].error # <<>>
    /\ sends[s].error[1].message = EmptyStr
    /\ sends[s].posted = 1
    /\ messages # <<>>
    /\ messages[Len(messages)].role = "assistant"

\* The content of a parsed body, read off its structure
HasContent(d) ==
  /\ d.t = "object"
  /\ "choices" \in DOMAIN d.v
  /\ d.v.choices.t = "array"
  /\ Len(d.v.choices.v) >= 1
  /\ d.v.choices.v[1].t = "object"
  /\ "message" \in DOMAIN d.v.choices.v[1].v
  /\ d.v.choices.v[1].v.message.t = "object"
  /\ "content" \in DOMAIN d.v.choices.v[1].v.message.v
  /\ d.v.choices.v[1].v.message.v.content.t = "string"

\* C4: a 2xx response whose body parses appends exactly one assistant
\* message: choices[0].message.content when present, "(no response)"
\* otherwise; it never ends in the failure message.
C4_SuccessAppendsContent ==
  [][\A s \in DOMAIN sends :
       (Returns(s) /\ sends'[s].data # JUndefined) =>
         LET d == sends'[s].data
         IN  /\ sends'[s].error = <<>>
             /\ Len(messages') = Len(messages) + 1
             /\ SubSeq(messages', 1, Len(messages)) = messages
             /\ messages'[Len(messages')].role = "assistant"
             /\ messages'[Len(messages')].text =
                  IF HasContent(d) THEN d.v.choices.v[1].v.message.v.content.v
                  ELSE Lit("(no response)")]_vars

\* a 2xx body without choices has produced the fallback text
C4_Witness ==
  \E s \in DOMAIN sends :
    /\ sends[s].pc = "done"
    /\ sends[s].data # JUndefined
    /\ ~HasContent(sends[s].data)
    /\ sends[s].data # JNull
    /\ messages # <<>>
    /\ messages[Len(messages)] = ChatMessage("assistant", Lit("(no response)"))

\* The string names the file (holds its name as a fragment)
Mentions(text, name) == \E i \in DOMAIN text : text[i] = name[1]

\* The block carries the name, in its text or as its filename
BlockMentions(block, name) ==
  \/ block.type = "text" /\ Mentions(block.text, name)
  \/ block.type = "file" /\ block.file.filename = name

\* The blocks are those of the files, in order, built from the reads
RECURSIVE BlocksMatch(_, _, _)
BlocksMatch(blocks, files, reads) ==
  IF files = <<>> THEN blocks = <<>>
  ELSE LET f == Head(files) IN
       IF f.type = TypePng
       THEN /\ Len(blocks) >= 2
            /\ blocks[1].type = "image_url"
            /\ blocks[1].image_url.url = Head(reads)
            /\ blocks[2].type = "text"
            /\ Mentions(blocks[2].text, f.name)
            /\ BlocksMatch(SubSeq(blocks, 3, Len(blocks)), Tail(files), Tail(reads))
       ELSE IF f.type = TypePdf
       THEN /\ Len(blocks) >= 2
            /\ blocks[1].type = "file"
            /\ blocks[1].file = [filename |-> f.name, file_data |-> Head(reads)]
            /\ blocks[2].type = "text"
            /\ Mentions(blocks[2].text, f.name)
            /\ BlocksMatch(SubSeq(blocks, 3, Len(blocks)), Tail(files), Tail(reads))
       ELSE /\ Len(blocks) >= 1
            /\ blocks[1].type = "text"
            /\ Mentions(blocks[1].text, f.name)
            /\ BlocksMatch(Tail(blocks), Tail(files), Tail(reads))

\* The number of files of the given types
CountTypes(files, types) == Cardinality({i \in DOMAIN files : files[i].type \in types})

\* sub occurs in text as a run of fragments
Contains(text, sub) ==
  \E k \in 0..(Len(text) - Len(sub)) : SubSeq(text, k + 1, k + Len(sub)) = sub

\* C8: what a send posts is fixed when it is triggered: its closure holds
\* the settings, system prompt and attachments of that moment, they and the
\* payload built from them do not change while the send runs, whatever is
\* mutated meanwhile, and a later send takes the values of its own trigger.
C8_InFlightUnaffected ==
  /\ [][/\ Len(sends') > Len(sends) =>
             sends'[Len(sends')].render =
               [messages |-> messages, input |-> input, pendingFiles |-> pendingFiles,
                systemPrompt |-> systemPrompt, tone |-> tone, depth |-> depth,
                citationMode |-> citationMode, extractTables |-> extractTables,
                describeImages |-> describeImages]
         /\ \A s \in DOMAIN sends :
              sends'[s].pc # "done" =>
                /\ sends'[s].render = sends[s].render
                /\ sends[s].history # <<>> => sends'[s].history = sends[s].history]_vars
  /\ [](\A s \in Posted :
          LET r == sends[s].render
              h == sends[s].history
              first == h[Len(h)].content[1].text
          IN  /\ h[1].content = <<[type |-> "text", text |-> r.systemPrompt]>>
              /\ Contains(first, <<Lit("Tone: ")[1], Lit(r.tone)[1]>>)
              /\ Contains(first, <<Lit("Depth: ")[1], Lit(r.depth)[1]>>)
              /\ Contains(first, <<Lit("Citations: ")[1], Lit(r.citationMode)[1]>>)
              /\ Contains(first, <<Lit("ExtractTables: ")[1],
                                   Lit(IF r.extractTables THEN "true" ELSE "false")[1]>>)
              /\ Contains(first, <<Lit("DescribeImages: ")[1],
                                   Lit(IF r.describeImages THEN "true" ELSE "false")[1]>>)
              /\ BlocksMatch(Tail(h[Len(h)].content), r.pendingFiles, sends[s].reads))

\* the prompt was changed while a send was reading its attachment: that
\* send has posted the old prompt, the send triggered next the new one
C8_Witness ==
  /\ Len(sends) = 1
  /\ sends[1].pc = "fetching"
  /\ systemPrompt # sends[1].render.systemPrompt
  /\ pendingFiles # sends[1].render.pendingFiles
  /\ sends[1].history[1].content[1].text = DEFAULT_SYSTEM_PROMPT
  /\ BlocksMatch(Tail(sends[1].history[Len(sends[1].history)].content),
                 ImageSelected.pendingFiles, sends[1].reads)

\* The text is empty or consists of white space
IsBlank(text) == \A i \in DOMAIN text : text[i].ch \in {" ", "\n", "\t"}

\* A call of sendMessage starts in this step
Triggers == left'.returned # left.returned \/ Len(sends') # Len(sends)

\* C5: a send triggered with blank input and no pending attachment changes
\* nothing (no message, no read, no request, no state or setting), and
\* that is the only case in which a send returns at once.
C5_EmptySendIsNoop ==
  [][Triggers =>
       IF IsBlank(input) /\ pendingFiles = <<>>
       THEN UNCHANGED <<messages, input, pendingFiles, isSending, settingsVars, sends>>
       ELSE left'.returned = left.returned]_vars

\* a send on white-space input has returned at once
C5_Witness ==
  /\ left.returned > 0
  /\ input # EmptyStr
  /\ IsBlank(input)
  /\ sends = <<>>
  /\ messages = <<>>

\* The media types of the model that the component supports
SupportedTypes == {TypePdf, TypeText, TypePng}

\* The files of a selection that are supported, in their order
RECURSIVE SupportedOf(_)
SupportedOf(files) ==
  IF files = <<>> THEN <<>>
  ELSE IF Head(files).type \in SupportedTypes
       THEN <<Head(files)>> \o SupportedOf(Tail(files))
       ELSE SupportedOf(Tail(files))

\* C6: every pending file, and every file a running send works on, has
\* type application/pdf, text/plain or image/*; no block of a send names an
\* unsupported file; and when the pending list grows, it grows at its end
\* by the supported files of one selection, in their order.
C6_FilterAtAcceptance ==
  /\ [](/\ \A i \in DOMAIN pendingFiles : pendingFiles[i].type \in SupportedTypes
        /\ \A s \in DOMAIN sends :
             /\ \A i \in DOMAIN sends[s].render.pendingFiles :
                  sends[s].render.pendingFiles[i].type \in SupportedTypes
             /\ \A i \in DOMAIN sends[s].userBlocks :
                  ~BlockMentions(sends[s].userBlocks[i], FileDoc.name)
             /\ \A h \in DOMAIN sends[s].history :
                  \A i \in DOMAIN sends[s].history[h].content :
                    ~BlockMentions(sends[s].history[h].content[i], FileDoc.name))
  /\ [][Len(pendingFiles') > Len(pendingFiles) =>
          \E files \in Selections :
            pendingFiles' = pendingFiles \o SupportedOf(files)]_vars

\* a mixed selection has been added after an earlier file
C6_Witness ==
  /\ pendingFiles = <<FileTxt, FilePdf, FileTxt>>
  /\ left.actions = MaxActions - 2

\* C7: clearing the conversation empties the message sequence and changes
\* neither a setting nor input, pendingFiles or isSending; nothing else
\* shortens the sequence.
C7_ClearKeepsSettings ==
  [][Len(messages') < Len(messages) =>
       /\ messages' = <<>>
       /\ UNCHANGED <<input, pendingFiles, isSending, settingsVars>>]_vars

\* the conversation was cleared while a send over attachments was running
C7_Witness ==
  /\ messages = <<>>
  /\ Len(sends) > 0
  /\ pendingFiles # <<>>
  /\ isSending

\* C9: the current turn posted is one directive-annotated text block, then
\* the blocks of each pending attachment in order (image: image block and
\* text block; PDF: file block and text block; text file: one text block),
\* 1 + 2*(images + PDFs) + (text files) blocks in all.
C9_CurrentTurnBlocks ==
  \A s \in Posted :
    LET content == sends[s].history[Len(sends[s].history)].content
        files == sends[s].render.pendingFiles
        r == sends[s].render
    IN  /\ Len(content) = 1 + 2 * CountTypes(files, {TypePng, TypePdf})
                            + CountTypes(files, {TypeText})
        /\ content[1].type = "text"
        /\ Contains(content[1].text, <<Lit("Tone: ")[1], Lit(r.tone)[1]>>)
        /\ Contains(content[1].text, <<Lit("Depth: ")[1], Lit(r.depth)[1]>>)
        /\ Contains(content[1].text, <<Lit("Citations: ")[1], Lit(r.citationMode)[1]>>)
        /\ ~IsBlank(r.input) => Contains(content[1].text, sends[s].trimmed)
        /\ BlocksMatch(Tail(content), files, sends[s].reads)
        /\ (files = <<>>) => Len(content) = 1

\* a send over a PDF, a text file and an image has posted its request
C9_Witness ==
  \E s \in Posted :
    /\ sends[s].render.pendingFiles = <<FilePdf, FileTxt, FilePng>>
    /\ Len(sends[s].history[Len(sends[s].history)].content) = 6

\* p is a prefix of t (on run-length encoded strings)
RECURSIVE IsPrefix(_, _)
IsPrefix(p, t) ==
  \/ p = <<>>
  \/ /\ t # <<>>
     /\ Head(p).ch = Head(t).ch
     /\ \/ Head(p).n = Head(t).n /\ IsPrefix(Tail(p), Tail(t))
        \/ Head(p).n < Head(t).n /\ Tail(p) = <<>>

\* The number of blocks the files before position i have pushed
RECURSIVE BlocksBefore(_, _)
BlocksBefore(files, i) ==
  IF i <= 1 THEN 0
  ELSE BlocksBefore(files, i - 1) + (IF files[i - 1].type = TypeText THEN 1 ELSE 2)

\* The block of the text file at position i of call s
TextBlockOf(s, i) ==
  sends[s].userBlocks[1 + BlocksBefore(sends[s].render.pendingFiles, i) + 1].text

\* The text files call s has read so far
TextReads(s) ==
  {i \in DOMAIN sends[s].reads : sends[s].render.pendingFiles[i].type = TypeText}

\* C10: the block of a text attachment holds, between BEGIN <name> and
\* END <name> markers of the same name, the first 200,000 characters of
\* the file's text, which is all of it when it has at most 200,000.
C10_TextTruncation ==
  \A s \in DOMAIN sends :
    \A i \in TextReads(s) :
      LET t == TextBlockOf(s, i)
          name == sends[s].render.pendingFiles[i].name
          full == sends[s].reads[i]
          body == SubSeq(t, 7, Len(t) - 3)
      IN  /\ Len(t) >= 9
          /\ SubSeq(t, 4, 6) = Lit("----- BEGIN ") \o name \o Lit(" -----\n")
          /\ SubSeq(t, Len(t) - 2, Len(t)) = Lit("\n----- END ") \o name \o Lit(" -----")
          /\ IsPrefix(body, full)
          /\ StrLen(body) = IF StrLen(full) > 200000 THEN 200000 ELSE StrLen(full)
          /\ StrLen(full) <= 200000 => body = full

\* a text of 200,001 characters has been cut to 200,000
C10_Witness ==
  \E s \in DOMAIN sends :
    \E i \in TextReads(s) :
      /\ StrLen(sends[s].reads[i]) = 200001
      /\ SubSeq(TextBlockOf(s, i), 7, Len(TextBlockOf(s, i)) - 3)
           = <<[ch |-> "x", n |-> 199999], [ch |-> "y", n |-> 1]>>

\* The system block of every payload posted carries the control directives
\* of the send as well as its system prompt
C11_SystemBlockCarriesSettings ==
  \A s \in Posted :
    LET r == sends[s].render
        h == sends[s].history
    IN  /\ h[1].role = "system"
        /\ Contains(h[1].content[1].text, r.systemPrompt)
        /\ Contains(h[1].content[1].text, controlDirectives(r))

\* C11: the payload has one system block, at its head, and its content is
\* one text block holding the system prompt and nothing else; the
\* directives derived from tone, depth, citation mode and the two toggles
\* are in the first text block of the current user turn.
C11_SystemBlockIsPrompt ==
  \A s \in Posted :
    LET r == sends[s].render
        h == sends[s].history
    IN  /\ h[1].role = "system"
        /\ \A i \in 2..Len(h) : h[i].role # "system"
        /\ h[1].content = <<TextBlock(r.systemPrompt)>>
        /\ h[Len(h)].role = "user"
        /\ Contains(h[Len(h)].content[1].text,
                    Lit("Assistant controls: ") \o controlDirectives(r) \o Lit("\n"))

\* a send has posted after the tone and the system prompt were changed
C11_Witness ==
  \E s \in Posted :
    /\ sends[s].render.tone # "neutral"
    /\ sends[s].render.systemPrompt # DEFAULT_SYSTEM_PROMPT
    /\ sends[s].history[1].content[1].text = Lit("Be brief.")

\* C12: the step in which a send passes the empty check appends the user
\* message of the turn (the trimmed input, or "(sent attachments)" when it
\* is empty), clears the input and sets isSending, with no read finished, no
\* response received and no assistant message appended; the assistant
\* message of a send is appended in a later step, by a send already running.
C12_UserMessageFirst ==
  [][/\ Len(sends') > Len(sends) =>
          LET new == sends'[Len(sends')]
          IN  /\ Len(sends') = Len(sends) + 1
              /\ messages' = Append(messages,
                                    [role |-> "user",
                                     text |-> IF IsBlank(input) THEN Lit("(sent attachments)")
                                              ELSE Trim(input)])
              /\ input' = EmptyStr
              /\ isSending' = TRUE
              /\ new.pc \in {"reading", "fetching"}
              /\ new.reads = <<>>
              /\ new.status = 0
              /\ new.appended = <<>>
     /\ \A s \in DOMAIN sends' :
          (sends'[s].appended # <<>> /\ (s \in DOMAIN sends => sends[s].appended = <<>>)) =>
            /\ s \in DOMAIN sends
            /\ sends[s].pc \in {"reading", "fetching", "text", "json"}
            /\ sends'[s].appended[1].role = "assistant"
            /\ messages' = Append(messages, sends'[s].appended[1])
     /\ (Len(messages') = Len(messages) + 1 /\ messages'[Len(messages')].role = "assistant") =>
          \E s \in DOMAIN sends : Returns(s)]_vars

\* a send of attachments alone has completed: the placeholder, then the
\* assistant message
C12_Witness ==
  /\ Len(sends) = 1
  /\ sends[1].pc = "done"
  /\ Len(messages) = 2
  /\ messages[1] = [role |-> "user", text |-> Lit("(sent attachments)")]
  /\ messages[2].role = "assistant"
  /\ sends[1].appended = <<messages[2]>>
  /\ input = EmptyStr

\* C13: a send reads its attachments one at a time in their order (the
\* read awaited is that of the file after those already read) and posts its
\* request, once, only when every attachment has been read; a rejected read
\* ends the send at once in the failure path: no further read, no request,
\* one failure message.
C13_ReadsThenFetch ==
  /\ [](\A s \in DOMAIN sends :
          /\ sends[s].posted \in {0, 1}
          /\ sends[s].pc = "reading" =>
               /\ sends[s].posted = 0
               /\ sends[s].history = <<>>
               /\ sends[s].idx = Len(sends[s].reads) + 1
               /\ sends[s].idx <= Len(sends[s].render.pendingFiles)
          /\ s \in Posted =>
               /\ sends[s].posted = 1
               /\ Len(sends[s].reads) = Len(sends[s].render.pendingFiles)
               /\ \A i \in DOMAIN sends[s].reads :
                    sends[s].reads[i] \in ReadResults(sends[s].render.pendingFiles[i])
          /\ (sends[s].pc = "done" /\ sends[s].error = <<FileReadError>>) =>
               sends[s].posted = 0)
  /\ [][\A s \in DOMAIN sends :
          /\ sends'[s].reads # sends[s].reads /\ sends'[s].pc # "done" =>
               /\ sends[s].pc = "reading"
               /\ Len(sends'[s].reads) = Len(sends[s].reads) + 1
               /\ SubSeq(sends'[s].reads, 1, Len(sends[s].reads)) = sends[s].reads
          /\ sends'[s].posted # sends[s].posted =>
               /\ sends[s].pc = "reading"
               /\ Len(sends[s].reads) + 1 = Len(sends[s].render.pendingFiles)
          /\ (sends[s].pc = "reading" /\ sends'[s].pc = "done") =>
               /\ sends'[s].error = <<FileReadError>>
               /\ sends'[s].posted = 0
               /\ messages' = Append(messages, FailureMessage(FileReadError))]_vars

\* the second of two attachments is being read and no request is posted
C13_Witness ==
  /\ Len(sends) = 1
  /\ sends[1].pc = "reading"
  /\ Len(sends[1].render.pendingFiles) = 2
  /\ Len(sends[1].reads) = 1
  /\ sends[1].idx = 2
  /\ sends[1].posted = 0

\* C14: every step leaves the message sequence as it is, or extends it by
\* one message at its end with the messages before unchanged, or replaces
\* it by the empty sequence; no message is removed, moved or edited alone.
C14_AppendOnly ==
  [][\/ messages' = messages
     \/ /\ Len(messages') = Len(messages) + 1
        /\ \A i \in DOMAIN messages : messages'[i] = messages[i]
     \/ messages' = <<>>]_vars

\* two sends have completed one after the other: four messages in order
C14_Witness ==
  /\ Len(messages) = 4
  /\ messages[1].role = "user"
  /\ messages[2].role = "assistant"
  /\ messages[3].role = "user"
  /\ messages[4].role = "assistant"
  /\ Len(sends) = 2
  /\ sends[1].appended = <<messages[2]>>
  /\ sends[2].appended = <<messages[4]>>

\* C15: every send that passes the empty check completes: it appends its
\* assistant message and returns, and isSending, once set, is reset. While
\* the request is outstanding the timer alone brings this about (it aborts
\* the call, which ends the send in the failure path); the reads and the
\* body of a response received are assumed to settle.
C15_SendCompletes ==
  /\ \A s \in 1..LiveActions :
       [](s \in DOMAIN sends =>
            <>(s \in DOMAIN sends /\ sends[s].pc = "done" /\ Len(sends[s].appended) = 1))
  /\ [](isSending => <>(~isSending))

\* a send has ended by the timer: aborted, the failure message appended
C15_Witness ==
  /\ Len(sends) = 1
  /\ sends[1].pc = "done"
  /\ sends[1].timer = "fired"
  /\ sends[1].error = <<AbortError>>
  /\ messages[Len(messages)] = FailureMessage(AbortError)
  /\ ~isSending

\* The calls of sendMessage that have not returned
Running == {s \in DOMAIN sends : sends[s].pc # "done"}

\* C16: the Send button is disabled while isSending is true, and
\* sendMessage itself checks nothing but the empty case: called while
\* isSending is true with input or attachments, it appends another user
\* message and starts another send at once (its reads, or its request when
\* there is nothing to read), next to the sends already running, which go
\* on as they were.
C16_NoAdmissionCheck ==
  /\ [](isSending => ~ENABLED ClickSend)
  /\ [](left.actions > 0 => ENABLED SendMessage)
  /\ [][(Triggers /\ isSending /\ ~(IsBlank(input) /\ pendingFiles = <<>>)) =>
          /\ Len(sends') = Len(sends) + 1
          /\ Len(messages') = Len(messages) + 1
          /\ messages'[Len(messages')].role = "user"
          /\ sends'[Len(sends')].pc \in {"reading", "fetching"}
          /\ (pendingFiles = <<>>) => sends'[Len(sends')].posted = 1
          /\ \A s \in DOMAIN sends : sends'[s] = sends[s]
          /\ Running # {} => Cardinality({s \in DOMAIN sends' : sends'[s].pc # "done"}) >= 2]_vars

\* two requests are outstanding at once
C16_Witness ==
  /\ Len(sends) = 2
  /\ sends[1].pc = "fetching"
  /\ sends[2].pc = "fetching"
  /\ isSending
  /\ Len(messages) = 2
  /\ messages[2].role = "user"

\* C17: the attachments of a send are those pending when it was triggered,
\* whatever is accepted while it runs; its completion empties the pending
\* list as it stands then, the attachments accepted meanwhile included; and
\* through the Send button a send starts only when none is running, over
\* the list of that moment, so an attachment accepted during a send is gone
\* before any request could carry it.
C17_InFlightAttachmentCleared ==
  /\ [][\A s \in DOMAIN sends :
          /\ sends'[s].pc # "done" =>
               sends'[s].render.pendingFiles = sends[s].render.pendingFiles
          /\ Returns(s) =>
               /\ sends'[s].cleared = pendingFiles
               /\ pendingFiles' = <<>>]_vars
  /\ [][Len(sends') > Len(sends) =>
          /\ Running = {}
          /\ sends'[Len(sends')].render.pendingFiles = pendingFiles]_vars
  /\ [](\A s \in Posted :
          /\ Len(sends[s].reads) = Len(sends[s].render.pendingFiles)
          /\ \A f \in {FilePng, FilePdf, FileTxt} :
               (\E i \in DOMAIN sends[s].history[Len(sends[s].history)].content :
                  BlockMentions(sends[s].history[Len(sends[s].history)].content[i], f.name))
                 => \E i \in DOMAIN sends[s].render.pendingFiles :
                      sends[s].render.pendingFiles[i] = f)

\* a text file was accepted while a send over one image was running, and
\* the completion of that send has cleared both
C17_Witness ==
  /\ Len(sends) = 1
  /\ sends[1].pc = "done"
  /\ sends[1].cleared = ImageSelected.pendingFiles \o <<FileTxt>>
  /\ pendingFiles = <<>>
  /\ ~isSending

\* C18: the prior turns of a payload are the last min(12, n) messages of
\* the sequence of n messages that stood when the send was triggered, in
\* order, each as one text block of the same role and text; the user
\* message the send itself appends is not in that sequence, so the current
\* turn is in the payload once, as its last block; and what is appended to
\* or cleared from the conversation after the trigger changes nothing.
C18_PriorTurnsAtTrigger ==
  /\ [][/\ Len(sends') > Len(sends) =>
             /\ sends'[Len(sends')].render.messages = messages
             /\ Len(messages') = Len(sends'[Len(sends')].render.messages) + 1
        /\ \A s \in DOMAIN sends :
             sends'[s].pc # "done" =>
               /\ sends'[s].render.messages = sends[s].render.messages
               /\ sends[s].history # <<>> => sends'[s].history = sends[s].history]_vars
  /\ [](\A s \in Posted :
          LET h == sends[s].history
              m == sends[s].render.messages
              n == Len(m)
              k == IF n < 12 THEN n ELSE 12
          IN  /\ Len(h) = k + 2
              /\ \A i \in 1..k :
                   /\ h[i + 1].role = m[n - k + i].role
                   /\ h[i + 1].content = <<[type |-> "text", text |-> m[n - k + i].text]>>
              /\ h[Len(h)].role = "user"
              /\ h[Len(h)].content = sends[s].userBlocks)

\* a send triggered over 14 messages has posted the last 12 of them after
\* the conversation was cleared
C18_Witness ==
  \E s \in Posted :
    /\ Len(sends[s].render.messages) = 14
    /\ Len(sends[s].history) = 14
    /\ sends[s].history[2].content[1].text = sends[s].render.messages[3].text
    /\ Len(sends[s].reads) = 1
    /\ messages = <<>>

\* C19: clearing the conversation leaves every send as it is, running ones
\* included; a send that completes appends its one assistant message
\* (reply or failure) to the sequence as it then stands, cleared or not, so
\* after a clear the sequence can be that assistant message alone.
C19_ClearDoesNotCancel ==
  [][/\ (messages # <<>> /\ messages' = <<>>) => sends' = sends
     /\ \A s \in DOMAIN sends :
          /\ (sends[s].pc # "done" /\ sends'[s].pc # sends[s].pc) =>
               ~(messages # <<>> /\ messages' = <<>>)
          /\ Returns(s) =>
               /\ Len(sends'[s].appended) = 1
               /\ sends'[s].appended[1].role = "assistant"
               /\ messages' = Append(messages, sends'[s].appended[1])
               /\ (messages = <<>>) => messages' = sends'[s].appended]_vars

\* the conversation was cleared while the send was in flight: the reply is
\* the only message, with no user message before it
C19_Witness ==
  /\ Len(sends) = 1
  /\ sends[1].pc = "done"
  /\ sends[1].error = <<>>
  /\ Len(messages) = 1
  /\ messages[1].role = "assistant"
  /\ messages = sends[1].appended

====
